---- MODULE Spec2Model ----
(***************************************************************************)
(* polyarb: sportsbook / Polymarket arbitrage tool.                        *)
(*                                                                         *)
(* Numbers.  A Polymarket price is scraped as a number of cents and        *)
(* divided by 100 (polymarket.py:78-83); the model keeps the cents, so the *)
(* price 0.55 is 55.  Kelly Size is a percentage rounded to two decimals   *)
(* (sandbox.py:332); the model keeps hundredths of a percent, so 16.67 is  *)
(* 1667.  Probabilities and net odds are exact fractions <<num, den>>.     *)
(* An Optional value is a sequence of length 0 (None) or 1.                *)
(***************************************************************************)
EXTENDS Integers, Sequences, FiniteSets, TLC

\* ------------------------------------------------------------------ bounds
MaxQuotes == 2

\* --------------------------------------------------------------- constants
\* constants.py:10-18, class PolymarketWagerStatus
PolymarketWagerStatus ==
    { "Placed", "Team not selected", "Wager too small", "Price changed",
      "Dry run", "Insufficient balance", "Signature failed", "Exception" }

\* constants.py:31-62 (three of the thirty entries)
NBA_TEAM_TO_POLYMARKET_ABBREVIATION ==
    [t \in {"Lakers", "Celtics", "Clippers"} |->
        CASE t = "Lakers"   -> "LAL"
          [] t = "Celtics"  -> "BOS"
          [] t = "Clippers" -> "LAC"]

\* ------------------------------------------------------------- arithmetic
Abs(x) == IF x < 0 THEN -x ELSE x

\* Python round() of num/den >= 0: to nearest, an exact half to the even side.
RoundHalfEven(num, den) ==
    LET q == num \div den
        r == num % den
    IN  IF 2 * r > den \/ (2 * r = den /\ q % 2 = 1) THEN q + 1 ELSE q

\* Prices whose odds quotient is an exact half in the rationals but lands
\* above it in binary floating point: 0.68 / (1 - 0.68) = 2.1250000000000004,
\* so round() gives 213 where the exact tie 212.5 would give 212.
FloatTieAbove == {68}

price_to_american_odds_strict(c) ==
    IF ~(0 < c /\ c < 100)
    THEN [raised |-> TRUE, val |-> 0]
    ELSE IF c > 50
         THEN [raised |-> FALSE,
               val |-> -(IF c \in FloatTieAbove
                         THEN (100 * c) \div (100 - c) + 1
                         ELSE RoundHalfEven(100 * c, 100 - c))]
         ELSE [raised |-> FALSE, val |-> RoundHalfEven(100 * (100 - c), c)]

\* sandbox.py:198-223.  [raised |-> TRUE] is the ValueError.
price_to_american_odds(c) ==
    IF ~(0 < c /\ c < 100)
    THEN [raised |-> TRUE, val |-> 0]
    ELSE IF c >= 50
         THEN [raised |-> FALSE,
               val |-> -(IF c \in FloatTieAbove
                         THEN (100 * c) \div (100 - c) + 1
                         ELSE RoundHalfEven(100 * c, 100 - c))]
         ELSE [raised |-> FALSE, val |-> RoundHalfEven(100 * (100 - c), c)]

american_odds_to_probability_no_abs(odds) ==
    IF odds > 0 THEN <<100, odds + 100>>
    ELSE <<odds, odds + 100>>

american_odds_to_probability_flat(odds) == <<100, Abs(odds) + 100>>

\* sandbox.py:226-239 / utils.py:68-81: the probability as <<num, den>>.
american_odds_to_probability(odds) ==
    IF odds > 0 THEN <<100, odds + 100>>
    ELSE <<Abs(odds), Abs(odds) + 100>>

\* utils.py:68-81 on the integer odds = sign * 10^digits, digits >= 3, where
\* the quotient is rounded to a float.  The result is the float p, or the
\* float 1 - p when one_minus, for p = <<num, den, exp>> = num / den *
\* 10^(-exp).  100 / (10^digits + 100) is below half the smallest positive
\* float from digits = 326 on and rounds to 0.0; 10^digits / (10^digits +
\* 100) is nearer to 1.0 than to the float below 1.0 from digits = 19 on.
american_odds_to_probability_of_power(sign, digits) ==
    IF sign > 0
    THEN [one_minus |-> FALSE,
          p |-> IF digits >= 326 THEN <<0, 1, 0>> ELSE <<1, 1, digits - 2>>]
    ELSE IF digits >= 19
    THEN [one_minus |-> FALSE, p |-> <<1, 1, 0>>]
    ELSE [one_minus |-> TRUE, p |-> <<1, 1, digits - 2>>]

\* Probabilities <<num, den>> whose odds quotient is an exact half in the
\* rationals and lands above it in binary floating point.
FloatQuotientAbove == { <<68, 100>>, <<680, 1000>>, <<936, 1000>> }

\* utils.py:40-65 (and the same code at sandbox.py:198-223), on any float:
\* p = <<num, den, exp>> is the float num / den * 10^(-exp), with den > 0,
\* exp >= 0, and 0 <= num <= den when exp > 0.  error "" is a return.  For
\* exp >= 310 the float is below 100 / 1.8e308, 100 * ((1 - p) / p) is inf
\* and round(inf) raises OverflowError.
probability_to_american_odds(p) ==
    IF ~(0 < p[1] /\ (p[1] < p[2] \/ p[3] > 0))
    THEN [error |-> "ValueError", val |-> 0]
    ELSE IF p[3] >= 310
    THEN [error |-> "OverflowError", val |-> 0]
    ELSE IF p[3] = 0 /\ 2 * p[1] >= p[2]
    THEN [error |-> "",
          val |-> -(IF <<p[1], p[2]>> \in FloatQuotientAbove
                    THEN (100 * p[1]) \div (p[2] - p[1]) + 1
                    ELSE RoundHalfEven(100 * p[1], p[2] - p[1]))]
    ELSE [error |-> "",
          val |-> RoundHalfEven(100 * (p[2] * 10 ^ p[3] - p[1]), p[1])]

kelly_criterion_unclamped(p, b) ==
    << p[1] * b[1] - (p[2] - p[1]) * b[2], p[2] * b[1] >>

kelly_criterion_times(p, b) ==
    LET num == p[1] * b[2] - (p[2] - p[1]) * b[1]
        den == p[2] * b[2]
    IN  IF num > 0 THEN <<num, den>> ELSE <<0, 1>>

\* sandbox.py:242-253 / utils.py:84-95: max(0, p - (1 - p) / b) as a
\* fraction, for p = <<pn, pd>> and b = <<bn, bd>> with bn > 0.
kelly_criterion(p, b) ==
    LET num == p[1] * b[1] - (p[2] - p[1]) * b[2]
        den == p[2] * b[1]
    IN  IF num > 0 THEN <<num, den>> ELSE <<0, 1>>

should_wager_always(book_odds, polymarket_odds) == TRUE

should_wager_docstring(book_odds, polymarket_odds) ==
    \/ book_odds < 0 /\ polymarket_odds > book_odds
    \/ book_odds > 0 /\ polymarket_odds < book_odds

\* sandbox.py:256-276 / utils.py:98-118
should_wager(book_odds, polymarket_odds) ==
    IF book_odds < 0 /\ polymarket_odds > book_odds THEN TRUE
    ELSE IF book_odds > 0 /\ polymarket_odds > book_odds THEN TRUE
    ELSE FALSE

\* round(kelly_size * 100, 2), in hundredths of a percent (sandbox.py:332)
KellySizeOf(kelly) == RoundHalfEven(10000 * kelly[1], kelly[2])

\* ------------------------------------------------------ opportunity detector
\* sandbox.py:107-131.  The three-letter label of a Polymarket button
\* (polymarket.py:388-389) contains the three-letter abbreviation exactly
\* when the two are equal.  [raised |-> TRUE] is the KeyError of the lookup
\* NBA_TEAM_TO_POLYMARKET_ABBREVIATION[team], evaluated once a listing is
\* looked at.
RECURSIVE find_team_polymarket_price_from(_, _, _)
find_team_polymarket_price_from(team, listings, k) ==
    IF k > Len(listings) THEN [raised |-> FALSE, val |-> <<>>]
    ELSE IF team \notin DOMAIN NBA_TEAM_TO_POLYMARKET_ABBREVIATION
    THEN [raised |-> TRUE, val |-> <<>>]
    ELSE LET abbr == NBA_TEAM_TO_POLYMARKET_ABBREVIATION[team]
             listing == listings[k]
         IN  IF abbr = listing.away_team
             THEN [raised |-> FALSE, val |-> <<listing.away_team_price>>]
             ELSE IF abbr = listing.home_team
             THEN [raised |-> FALSE, val |-> <<listing.home_team_price>>]
             ELSE find_team_polymarket_price_from(team, listings, k + 1)

find_team_polymarket_price(team, listings) ==
    find_team_polymarket_price_from(team, listings, 1)

\* Python truth value of an Optional list: None and [] are both false.
Truthy(teams_list) == teams_list # <<>> /\ teams_list[1] # {}

\* sandbox.py:319-325 and 332: the Kelly Size column of one row.
KellySizeColumn(book_odds_val, price, price_as_odds) ==
    IF should_wager(book_odds_val, price_as_odds)
    THEN KellySizeOf(kelly_criterion(american_odds_to_probability(book_odds_val),
                                     <<100 - price, price>>))
    ELSE 0

\* sandbox.py:316-335 and 351-353: the row of one quote with a usable price.
\* index is the row's DataFrame index label, its position among the rows.
OddsRow(team, book_odds_val, price, price_as_odds, index) ==
    [ Team            |-> team,
      Wager           |-> should_wager(book_odds_val, price_as_odds),
      KellySize       |-> KellySizeColumn(book_odds_val, price, price_as_odds),
      Diff            |-> Abs(book_odds_val - price_as_odds),
      BookOdds        |-> book_odds_val,
      PolymarketOdds  |-> price_as_odds,
      PolymarketPrice |-> price,
      index           |-> index ]

PriceSkippedLoose(val) == val = <<>> \/ val[1] > 100

\* sandbox.py:313: price is None or price > 1 or price == 0
PriceSkipped(val) == val = <<>> \/ val[1] > 100 \/ val[1] = 0

\* sandbox.py:295-335: the loop over the book quotes, from quote k on, with
\* the rows collected so far.  [raised |-> TRUE] is an exception leaving
\* process_odds_data.
RECURSIVE process_rows_from(_, _, _, _, _)
process_rows_from(book, listings, teams_list, k, rows) ==
    IF k > Len(book) THEN [raised |-> FALSE, rows |-> rows]
    ELSE
      LET i == book[k]
          next(rs) == process_rows_from(book, listings, teams_list, k + 1, rs)
      IN
      IF Truthy(teams_list) /\ i.team \notin teams_list[1] THEN next(rows)
      ELSE IF i.moneyline = <<>> \/ i.moneyline[1] = 0 THEN next(rows)
      ELSE
        LET found == find_team_polymarket_price(i.team, listings) IN
        IF found.raised THEN [raised |-> TRUE, rows |-> <<>>]
        ELSE IF PriceSkipped(found.val) THEN next(rows)
        ELSE
          LET odds == price_to_american_odds(found.val[1]) IN
          IF odds.raised THEN [raised |-> TRUE, rows |-> <<>>]
          ELSE next(Append(rows,
                 OddsRow(i.team, i.moneyline[1], found.val[1], odds.val,
                         Len(rows))))

Reorderings(rows) ==
    IF rows = <<>> THEN { <<>> }
    ELSE { [j \in 1 .. Len(rows) |-> rows[f[j]]] :
             f \in Permutations(1 .. Len(rows)) }

SortedAscending(rows) ==
    { s \in Reorderings(rows) :
        \A j \in 1 .. Len(s) - 1 : s[j].KellySize <= s[j + 1].KellySize }

\* sandbox.py:365: diffs.sort_values(by="Kelly Size", ascending=False).
\* pandas sorts with numpy's quicksort unless kind= says otherwise; quicksort
\* is not stable, so rows of equal Kelly Size come out in any order.
sort_values_KellySize(rows) ==
    { s \in Reorderings(rows) :
        \A j \in 1 .. Len(s) - 1 : s[j].KellySize >= s[j + 1].KellySize }

\* sandbox.py:279-367: the results process_odds_data can return.
process_odds_data(book, listings, teams_list) ==
    LET r == process_rows_from(book, listings, teams_list, 1, <<>>) IN
    IF r.raised THEN { [state |-> "raised", rows |-> <<>>] }
    ELSE { [state |-> "returned", rows |-> s] : s \in sort_values_KellySize(r.rows) }

\* -------------------------------------------------------------------- state
VARIABLES
    book_odds,        \* the DraftKings quotes handed to process_odds_data
    polymarket_odds,  \* the PolymarketOdds listings handed to it
    teams_list,       \* its optional team filter: <<>> is None, <<S>> a list
    diffs,            \* what the call did: not called, returned rows, raised
    pc,               \* "idle", live "running" or "returned", "called"
    dry_run,          \* the dry_run argument of live / place_wagers
    timeout,          \* the timeout argument of live: <<>> is None
    ledger,           \* the rows of the CSV file at csv_path, in file order
    preexisting,      \* how many rows the file held before live started
    now,              \* the next reading of time.time()
    no_games_count,   \* live's counter of consecutive checks without games
    opportunities,    \* live's local: the Wager rows of diffs, time-stamped
    existing,         \* live's local: the ledger as read by pd.read_csv
    latest_wagers,    \* live's local: team -> its most recent ledger row
    new_opps,         \* live's local: the opportunities that passed the filter
    did_place,        \* the list place_wagers returned last
    bought,           \* the teams whose buy button has been clicked, in order
    outcome,          \* how the last iteration / call ended
    streak,           \* the checks that found no live team since the last
                      \* check that found one (history, not read by live)
    call,             \* a call of a conversion or analysis function
    result            \* what that call did

detect_vars == <<book_odds, polymarket_odds>>
live_vars == <<pc, dry_run, timeout, ledger, preexisting, now, no_games_count,
               opportunities, existing, latest_wagers, new_opps, did_place,
               bought, outcome>>
calc_vars == <<call, result>>
vars == <<book_odds, polymarket_odds, teams_list, diffs, live_vars, streak,
          calc_vars>>

NoCall == [fn |-> "none"]
NoResult == [state |-> "not called"]

\* ----------------------------------------------------- inputs of the checks
SeqsUpTo(S, n) == UNION { [1 .. k -> S] : k \in 0 .. n }

\* DraftKingsElement (draftkings.py:17-54): team and moneyline(), which is
\* None when the text does not parse.  "Sonics" has no Polymarket
\* abbreviation; "Clippers" has one and no market below.
BookTeams == {"Lakers", "Celtics", "Clippers", "Sonics"}
Moneylines == { <<>>, <<0>>, <<-150>>, <<117>>, <<1328>> }
BookQuotes == [team : BookTeams, moneyline : Moneylines]

\* PolymarketOdds (sandbox.py:50-68): one game, Lakers at Celtics.
AwayCents == {-5, 0, 7, 46, 50, 55, 100, 105}
HomeCents == {40, 55, 100}
Listings ==
    { <<>> } \cup
    { << [away_team |-> "LAL", away_team_price |-> a,
          home_team |-> "BOS", home_team_price |-> h] >> :
        a \in AwayCents, h \in HomeCents }

TeamFilters == { <<>>, << {} >>, << {"Lakers", "Clippers"} >> }

NotCalled == [state |-> "not called", rows |-> <<>>]

\* ------------------------------------------- process_odds_data on its own
InitDetect ==
    /\ book_odds \in SeqsUpTo(BookQuotes, MaxQuotes)
    /\ polymarket_odds \in Listings
    /\ teams_list \in TeamFilters
    /\ diffs = NotCalled
    /\ pc = "idle" /\ dry_run = TRUE /\ timeout = <<>>
    /\ ledger = <<>> /\ preexisting = 0 /\ now = 0 /\ no_games_count = 0
    /\ opportunities = <<>> /\ existing = <<>> /\ latest_wagers = <<>>
    /\ new_opps = <<>> /\ did_place = <<>> /\ bought = <<>>
    /\ outcome = "none"
    /\ streak = 0 /\ call = NoCall /\ result = NoResult

\* One call of process_odds_data (sandbox.py:279-367) on the inputs.
CallProcessOddsData ==
    /\ diffs.state = "not called"
    /\ diffs' \in process_odds_data(book_odds, polymarket_odds, teams_list)
    /\ UNCHANGED <<book_odds, polymarket_odds, teams_list, live_vars, streak,
                   calc_vars>>

NextDetect == CallProcessOddsData

SpecDetect == InitDetect /\ [][NextDetect]_vars

\* ------------------------------------------------------------ place_wagers
\* live's unit_size default, 0.25, in quarters (sandbox.py:403).
UnitQuarters == 1

\* Prices p for which int(p * 100) is one cent short in binary floating
\* point: 0.29 * 100 = 28.999999999999996, and so for 0.57 and 0.58.
FloatCentsBelow == {29, 57, 58}

\* polymarket.py:165-175
float_to_cents(price) == IF price \in FloatCentsBelow THEN price - 1 ELSE price

\* polymarket.py:293-295: amount_dollars = unit * Kelly Size * price is below
\* 1 or below the price.  In quarters, hundredths and cents the amount is
\* UnitQuarters * KellySize * price / 40000 dollars.
WagerTooSmall(row) ==
    \/ UnitQuarters * row.KellySize * row.PolymarketPrice < 40000
    \/ UnitQuarters * row.KellySize * row.PolymarketPrice
          < 400 * row.PolymarketPrice

\* polymarket.py:307-310: str(cents) in context.bet_panel.price_field.text,
\* for a price field that reads the number panel and a cent sign, both
\* numbers below 100: the digits of cents occur in the digits of panel.
ShowsCents(panel, cents) ==
    \/ cents = panel
    \/ /\ cents < 10 /\ panel >= 10
       /\ (panel % 10 = cents \/ panel \div 10 = cents)

\* What the browser does while one row is handled: fault is the step that
\* goes wrong, or "none"; panel is the price the bet panel shows, in cents.
Faults ==
    { "none", "no button", "click raises", "send_keys raises", "wrong team",
      "panel raises", "buy raises", "after buy raises", "insufficient",
      "sign fails" }
Doms ==
    { [fault |-> f, panel |-> 40] : f \in Faults } \cup
    { [fault |-> "none", panel |-> c] : c \in {28, 29, 60} }

Skip == [kind |-> "skip", status |-> "", buy |-> FALSE]
Status(st, buy) == [kind |-> "status", status |-> st, buy |-> buy]
Raise(buy) == [kind |-> "raise", status |-> "", buy |-> buy]

place_row_buys_first(row, dom, dry) ==
    IF ~row.Wager THEN Skip
    ELSE IF dom.fault = "no button" THEN Status("Team not selected", FALSE)
    ELSE IF dom.fault = "click raises" THEN Raise(FALSE)
    ELSE IF WagerTooSmall(row) THEN Status("Wager too small", FALSE)
    ELSE IF dom.fault = "send_keys raises" THEN Raise(FALSE)
    ELSE IF dom.fault = "wrong team" THEN Status("Team not selected", FALSE)
    ELSE IF dom.fault = "panel raises" THEN Status("Exception", FALSE)
    ELSE IF ~ShowsCents(dom.panel, float_to_cents(row.PolymarketPrice))
    THEN Status("Price changed", FALSE)
    ELSE IF dom.fault = "buy raises" THEN Status("Exception", FALSE)
    ELSE IF dom.fault = "after buy raises" THEN Status("Exception", TRUE)
    ELSE IF dom.fault = "insufficient" THEN Status("Insufficient balance", TRUE)
    ELSE IF dry THEN Status("Dry run", TRUE)
    ELSE IF dom.fault = "sign fails" THEN Status("Signature failed", TRUE)
    ELSE Status("Placed", TRUE)

\* polymarket.py:275-331: one pass of the loop body for one row.  buy says
\* whether context.bet_panel.buy_button.click() was carried out.
place_row(row, dom, dry) ==
    IF ~row.Wager THEN Skip
    ELSE IF row.Team \notin DOMAIN NBA_TEAM_TO_POLYMARKET_ABBREVIATION
    THEN Raise(FALSE)
    ELSE IF dom.fault = "no button" THEN Status("Team not selected", FALSE)
    ELSE IF dom.fault = "click raises" THEN Raise(FALSE)
    ELSE IF WagerTooSmall(row) THEN Status("Wager too small", FALSE)
    ELSE IF dom.fault = "send_keys raises" THEN Raise(FALSE)
    ELSE IF dom.fault = "wrong team" THEN Status("Team not selected", FALSE)
    ELSE IF dom.fault = "panel raises" THEN Status("Exception", FALSE)
    ELSE IF ~ShowsCents(dom.panel, float_to_cents(row.PolymarketPrice))
    THEN Status("Price changed", FALSE)
    ELSE IF dry THEN Status("Dry run", FALSE)
    ELSE IF dom.fault = "buy raises" THEN Status("Exception", FALSE)
    ELSE IF dom.fault = "after buy raises" THEN Status("Exception", TRUE)
    ELSE IF dom.fault = "insufficient" THEN Status("Insufficient balance", TRUE)
    ELSE IF dom.fault = "sign fails" THEN Status("Signature failed", TRUE)
    ELSE Status("Placed", TRUE)

\* polymarket.py:274-333: the loop over the rows of df from row k on, with
\* the results so far and the teams whose buy button was clicked so far.
RECURSIVE place_wagers_from(_, _, _, _, _, _)
place_wagers_from(df, doms, dry, k, results, clicks) ==
    IF k > Len(df)
    THEN [raised |-> FALSE, results |-> results, clicks |-> clicks]
    ELSE
      LET r == place_row(df[k], doms[k], dry)
          c == IF r.buy THEN Append(clicks, df[k].Team) ELSE clicks
      IN  IF r.kind = "raise"
          THEN [raised |-> TRUE, results |-> results, clicks |-> c]
          ELSE place_wagers_from(df, doms, dry, k + 1,
                 IF r.kind = "skip" THEN results
                 ELSE Append(results, r.status), c)

place_wagers_newest_first(df, doms, dry) ==
    LET r == place_wagers_from(df, doms, dry, 1, <<>>, <<>>)
        n == Len(r.results)
    IN  [r EXCEPT !.results = [j \in 1 .. n |-> r.results[n + 1 - j]]]

\* polymarket.py:254-333
place_wagers(df, doms, dry) == place_wagers_from(df, doms, dry, 1, <<>>, <<>>)

\* --------------------------------------------------------------- live loop
MaxExisting == 2
MaxTime == 4
MaxNoGames == 3

NoStatus == ""

\* sandbox.py:506 and 513: the Wager rows of diffs, stamped with time.time().
Opportunities(rows, stamp) ==
    LET wagers == SelectSeq(rows, LAMBDA r : r.Wager) IN
    [j \in 1 .. Len(wagers) |->
        [ Team            |-> wagers[j].Team,
          Wager           |-> wagers[j].Wager,
          KellySize       |-> wagers[j].KellySize,
          Diff            |-> wagers[j].Diff,
          BookOdds        |-> wagers[j].BookOdds,
          PolymarketOdds  |-> wagers[j].PolymarketOdds,
          PolymarketPrice |-> wagers[j].PolymarketPrice,
          Timestamp       |-> stamp,
          WagerPlaced     |-> NoStatus ]]

TeamsOf(rows) == { rows[j].Team : j \in 1 .. Len(rows) }

LastInFileOrder(rows) ==
    IF rows = <<>> THEN { <<>> }
    ELSE { [t \in TeamsOf(rows) |->
              rows[CHOOSE j \in 1 .. Len(rows) :
                     /\ rows[j].Team = t
                     /\ \A k \in 1 .. Len(rows) :
                           rows[k].Team = t => k <= j]] }

\* sandbox.py:516-521: existing.sort_values("Timestamp").groupby("Team")
\* .last().  The sort is pandas' default quicksort, which is not stable:
\* among the rows of a team that share its greatest Timestamp any one may
\* come last.  The result maps each team of the ledger to one row.
latest_wagers_of(rows) ==
    IF rows = <<>> THEN { <<>> }
    ELSE { f \in [TeamsOf(rows) -> { rows[j] : j \in 1 .. Len(rows) }] :
             \A t \in TeamsOf(rows) :
                /\ f[t].Team = t
                /\ \A k \in 1 .. Len(rows) :
                      rows[k].Team = t => rows[k].Timestamp <= f[t].Timestamp }

IsRepeatByOdds(row, latest) ==
    /\ row.Team \in DOMAIN latest
    /\ latest[row.Team].BookOdds = row.BookOdds

\* sandbox.py:526-533: the any(...) of the filter, for one opportunity.
IsRepeat(row, latest) ==
    /\ row.Team \in DOMAIN latest
    /\ latest[row.Team].BookOdds = row.BookOdds
    /\ latest[row.Team].PolymarketPrice = row.PolymarketPrice

filter_new_all(opps, latest) == opps

\* sandbox.py:524-536: the opportunities that are no repeat, in their order.
filter_new(opps, latest) == SelectSeq(opps, LAMBDA r : ~IsRepeat(r, latest))

WithStatusMissing(rows, statuses) == rows

\* sandbox.py:540 and 550-552: the Wager Placed column.
WithStatus(rows, statuses) ==
    [j \in 1 .. Len(rows) |-> [rows[j] EXCEPT !.WagerPlaced = statuses[j]]]

AppendRewriting(file, rows) == rows

\* sandbox.py:554-555: new_opps.to_csv(csv_path, mode="a", header=False).
to_csv_append(file, rows) == file \o rows

\* Rows an earlier run left in the file: Lakers wagers at times 1, 2, ...
ExistingRows ==
    { [ Team            |-> "Lakers",
        Wager           |-> TRUE,
        KellySize       |-> KellySizeColumn(o, c, price_to_american_odds(c).val),
        Diff            |-> Abs(o - price_to_american_odds(c).val),
        BookOdds        |-> o,
        PolymarketOdds  |-> price_to_american_odds(c).val,
        PolymarketPrice |-> c,
        Timestamp       |-> t,
        WagerPlaced     |-> "Placed" ] :
        o \in {-200}, c \in {40, 60}, t \in 1 .. MaxExisting }

\* What one polling check scrapes: the game Lakers at Celtics, each side
\* with a moneyline (or an unparseable one), the two prices adding up to 1.
LiveBookOdds ==
    { << [team |-> "Lakers", moneyline |-> a],
         [team |-> "Celtics", moneyline |-> h] >> :
        a \in { <<>>, <<-200>>, <<120>> }, h \in { <<>>, <<-200>> } }
LiveListings ==
    { << [away_team |-> "LAL", away_team_price |-> a,
          home_team |-> "BOS", home_team_price |-> 100 - a] >> :
        a \in {40, 60} }
LiveDoms ==
    { [fault |-> "none", panel |-> 40], [fault |-> "none", panel |-> 60],
      [fault |-> "click raises", panel |-> 40] }

\* games.py:92-106, get_live_teams(): the API fails, no game is live, or
\* the game is (home team first).
LiveTeamsApi == { "raises", "none", "game" }
get_live_teams(api) == IF api = "game" THEN <<"Celtics", "Lakers">> ELSE <<>>

\* sandbox.py:463-468
live_teams_of(api) ==
    IF Truthy(teams_list)
    THEN SelectSeq(get_live_teams(api), LAMBDA t : t \in teams_list[1])
    ELSE get_live_teams(api)

Range(seq) == { seq[j] : j \in 1 .. Len(seq) }

\* Nothing has been called yet.
InitIdle ==
    /\ book_odds = <<>> /\ polymarket_odds = <<>> /\ teams_list = <<>>
    /\ diffs = NotCalled
    /\ pc = "idle" /\ dry_run = TRUE /\ timeout = <<>>
    /\ ledger = <<>> /\ preexisting = 0 /\ now = 0 /\ no_games_count = 0
    /\ opportunities = <<>> /\ existing = <<>> /\ latest_wagers = <<>>
    /\ new_opps = <<>> /\ did_place = <<>> /\ bought = <<>>
    /\ outcome = "none"
    /\ streak = 0 /\ call = NoCall /\ result = NoResult

\* sandbox.py:402-456: live(csv_path, teams_list, dry_run, timeout) has set
\* up and stands before its loop; the file at csv_path holds one of files
\* (it is created empty unless it exists) and the clock reads start.
InitRunning(files, start) ==
    /\ book_odds = <<>> /\ polymarket_odds = <<>> /\ diffs = NotCalled
    /\ pc = "running"
    /\ dry_run \in BOOLEAN
    /\ timeout \in { <<>>, <<2>> }
    /\ teams_list \in { <<>>, << {"Lakers"} >> }
    /\ ledger \in files
    /\ preexisting = Len(ledger)
    /\ now = start
    /\ no_games_count = 0
    /\ opportunities = <<>> /\ existing = <<>> /\ latest_wagers = <<>>
    /\ new_opps = <<>> /\ did_place = <<>> /\ bought = <<>>
    /\ outcome = "started"
    /\ streak = 0 /\ call = NoCall /\ result = NoResult

NoGamesStrict ==
    /\ no_games_count' = no_games_count + 1
    /\ IF timeout # <<>> /\ timeout[1] # 0 /\ no_games_count' > timeout[1]
       THEN pc' = "returned" /\ outcome' = "timed out"
       ELSE pc' = pc /\ outcome' = "no games"
    /\ UNCHANGED <<ledger, now, opportunities, existing, latest_wagers,
                   new_opps, did_place, bought>>

\* sandbox.py:470-487: a check that finds no live team.
NoGames ==
    /\ no_games_count' = no_games_count + 1
    /\ IF timeout # <<>> /\ timeout[1] # 0 /\ no_games_count' >= timeout[1]
       THEN pc' = "returned" /\ outcome' = "timed out"
       ELSE pc' = pc /\ outcome' = "no games"
    /\ UNCHANGED <<ledger, now, opportunities, existing, latest_wagers,
                   new_opps, did_place, bought>>

\* sandbox.py:593-599: except Exception; the loop waits and goes on.  reset
\* says whether no_games_count = 0 (line 489) was reached before the raise.
Failed(reset) ==
    /\ outcome' = "error"
    /\ no_games_count' = IF reset THEN 0 ELSE no_games_count
    /\ pc' = pc

\* sandbox.py:554-580: what the table then shows.
TableShown(rows) == IF rows # <<>> THEN "appended" ELSE "no new wagers"

\* sandbox.py:511-580: the opportunities opps (not empty) are de-duplicated
\* against the ledger, placed or marked, and appended.
Record(opps, latest, doms) ==
    LET new == filter_new(opps, latest)
        placed == place_wagers(new, doms, dry_run)
    IN
    /\ opportunities' = opps
    /\ existing' = ledger
    /\ latest_wagers' = latest
    /\ now' = now + 1
    /\ IF dry_run
       THEN /\ new_opps' = WithStatus(new, [j \in 1 .. Len(new) |-> "Dry run"])
            /\ ledger' = IF new_opps' # <<>> THEN to_csv_append(ledger, new_opps')
                         ELSE ledger
            /\ outcome' = TableShown(new_opps')
            /\ no_games_count' = 0
            /\ UNCHANGED <<pc, did_place, bought>>
       ELSE IF placed.raised \/ Len(placed.results) # Len(new)
       THEN /\ new_opps' = new
            /\ did_place' = IF placed.raised THEN did_place ELSE placed.results
            /\ bought' = placed.clicks
            /\ ledger' = ledger
            /\ Failed(TRUE)
       ELSE /\ did_place' = placed.results
            /\ bought' = placed.clicks
            /\ new_opps' = WithStatus(new, placed.results)
            /\ ledger' = IF new_opps' # <<>> THEN to_csv_append(ledger, new_opps')
                         ELSE ledger
            /\ outcome' = TableShown(new_opps')
            /\ no_games_count' = 0
            /\ pc' = pc

\* sandbox.py:490-580: a check that found live teams.  scraped is false
\* when refreshing or scraping the pages raises.
Games(live_teams, scraped, book, listings) ==
    LET unchanged == UNCHANGED <<ledger, now, opportunities, existing,
                                 latest_wagers, new_opps, did_place, bought>>
    IN
    IF ~scraped THEN Failed(TRUE) /\ unchanged
    ELSE
      \E d \in process_odds_data(book, listings, << Range(live_teams) >>) :
        IF d.state = "raised" THEN Failed(TRUE) /\ unchanged
        ELSE IF Opportunities(d.rows, now) = <<>>
        THEN /\ opportunities' = <<>>
             /\ outcome' = "no opportunities"
             /\ no_games_count' = 0
             /\ UNCHANGED <<pc, ledger, now, existing, latest_wagers, new_opps,
                            did_place, bought>>
        ELSE
          /\ now <= MaxTime
          /\ \E latest \in latest_wagers_of(ledger) :
             \E doms \in [1 .. Len(filter_new(Opportunities(d.rows, now), latest))
                          -> LiveDoms] :
                Record(Opportunities(d.rows, now), latest, doms)

\* sandbox.py:459-599: one pass of the while loop.
LiveIteration ==
    /\ pc = "running"
    /\ \E api \in LiveTeamsApi :
         /\ streak' = IF api = "raises" THEN streak
                       ELSE IF live_teams_of(api) = <<>> THEN streak + 1
                       ELSE 0
         /\ IF api = "raises"
            THEN /\ Failed(FALSE)
                 /\ UNCHANGED <<ledger, now, opportunities, existing,
                                latest_wagers, new_opps, did_place, bought>>
            ELSE IF live_teams_of(api) = <<>>
            THEN no_games_count < MaxNoGames /\ NoGames
            ELSE \E scraped \in BOOLEAN, book \in LiveBookOdds,
                    listings \in LiveListings :
                    Games(live_teams_of(api), scraped, book, listings)
    /\ UNCHANGED <<detect_vars, teams_list, diffs, dry_run, timeout, preexisting,
                   calc_vars>>

\* sandbox.py:589-592: except KeyboardInterrupt.
KeyboardInterrupt ==
    /\ pc = "running"
    /\ pc' = "returned"
    /\ outcome' = "interrupted"
    /\ UNCHANGED <<detect_vars, teams_list, diffs, dry_run, timeout, ledger,
                   preexisting, now, no_games_count, opportunities, existing,
                   latest_wagers, new_opps, did_place, bought, streak,
                   calc_vars>>

\* Rows a caller can hand to place_wagers.
PlaceRow(t, o, c) ==
    [ Team            |-> t,
      Wager           |-> should_wager(o, price_to_american_odds(c).val),
      KellySize       |-> KellySizeColumn(o, c, price_to_american_odds(c).val),
      Diff            |-> Abs(o - price_to_american_odds(c).val),
      BookOdds        |-> o,
      PolymarketOdds  |-> price_to_american_odds(c).val,
      PolymarketPrice |-> c,
      Timestamp       |-> 1,
      WagerPlaced     |-> NoStatus ]
PlaceRows ==
    { PlaceRow("Lakers", -200, 40), PlaceRow("Lakers", 120, 40),
      PlaceRow("Lakers", 120, 60), PlaceRow("Celtics", -200, 60),
      PlaceRow("Celtics", -200, 29) }

\* polymarket.py:254-333: place_wagers(df, context, unit, dry_run) called on
\* its own.
CallPlaceWagers ==
    /\ pc = "idle"
    /\ \E df \in SeqsUpTo(PlaceRows, MaxQuotes), dry \in BOOLEAN :
       \E doms \in [1 .. Len(df) -> Doms] :
          LET placed == place_wagers(df, doms, dry) IN
          /\ pc' = "called"
          /\ dry_run' = dry
          /\ new_opps' = df
          /\ did_place' = placed.results
          /\ bought' = placed.clicks
          /\ outcome' = IF placed.raised THEN "error" ELSE "returned"
    /\ UNCHANGED <<detect_vars, teams_list, diffs, timeout, ledger, preexisting,
                   now, no_games_count, opportunities, existing, latest_wagers,
                   streak, calc_vars>>

NextLive == LiveIteration \/ KeyboardInterrupt

Next == LiveIteration \/ KeyboardInterrupt \/ CallPlaceWagers

\* live started on an empty file or on a file of one row, polling twice.
Init == InitIdle \/ InitRunning(SeqsUpTo(ExistingRows, 1), MaxTime - 1)

Spec == Init /\ [][Next]_vars

\* live started on any file of up to MaxExisting rows, polling once.
InitDedup == InitRunning(SeqsUpTo(ExistingRows, MaxExisting), MaxTime)

SpecDedup == InitDedup /\ [][NextLive]_vars

\* ------------------------------------------- the conversions on their own
MaxOdds == 1000
MaxThousandths == 1005

\* Arguments of probability_to_american_odds: thousandths from below 0 to
\* above 1, some floats of the order of 1e-3, and floats of the order of
\* 1e-310.
Probabilities ==
    { <<n, 1000, 0>> : n \in -5 .. MaxThousandths } \cup
    { <<n, 4, e>> : n \in 1 .. 4, e \in {3, 310} }

\* Arguments of kelly_criterion: p in [0, 1] in twentieths, b > 0 in
\* quarters.
KellyArguments == { << <<i, 20>>, <<j, 4>> >> : i \in 0 .. 20, j \in 1 .. 16 }

\* Arguments of should_wager: book odds and Polymarket odds of either sign.
WagerArguments ==
    { <<b, m>> : b \in {-150, 0, 117}, m \in {-200, -150, -122, 100, 117, 150} }

\* Integer odds beyond the model's integers: sign * 10^digits.
PowerOdds == { <<s, d>> : s \in {-1, 1}, d \in {18, 19, 325, 326} }

Calls ==
    { [fn |-> "probability_to_american_odds", probability |-> p] :
        p \in Probabilities } \cup
    { [fn |-> "american_odds_to_probability", odds |-> o] :
        o \in -MaxOdds .. MaxOdds } \cup
    { [fn |-> "american_odds_to_probability of a power of ten",
       sign |-> o[1], digits |-> o[2]] : o \in PowerOdds } \cup
    { [fn |-> "should_wager", book_odds |-> a[1], polymarket_odds |-> a[2]] :
        a \in WagerArguments } \cup
    { [fn |-> "kelly_criterion", p |-> a[1], b |-> a[2]] :
        a \in KellyArguments }

InitOdds ==
    /\ book_odds = <<>> /\ polymarket_odds = <<>> /\ teams_list = <<>>
    /\ diffs = NotCalled
    /\ pc = "idle" /\ dry_run = TRUE /\ timeout = <<>>
    /\ ledger = <<>> /\ preexisting = 0 /\ now = 0 /\ no_games_count = 0
    /\ opportunities = <<>> /\ existing = <<>> /\ latest_wagers = <<>>
    /\ new_opps = <<>> /\ did_place = <<>> /\ bought = <<>>
    /\ outcome = "none" /\ streak = 0
    /\ call \in Calls
    /\ result = NoResult

Frame == UNCHANGED <<detect_vars, teams_list, diffs, live_vars, streak, call>>

\* utils.py:40-65
CallProbabilityToAmericanOdds ==
    /\ call.fn = "probability_to_american_odds" /\ result = NoResult
    /\ LET r == probability_to_american_odds(call.probability) IN
         result' = IF r.error # ""
                   THEN [state |-> "raised", error |-> r.error]
                   ELSE [state |-> "returned", val |-> r.val]
    /\ Frame

\* utils.py:68-81: the function has no raise.
CallAmericanOddsToProbability ==
    /\ call.fn = "american_odds_to_probability" /\ result = NoResult
    /\ result' = [state |-> "returned",
                  val |-> american_odds_to_probability(call.odds)]
    /\ Frame

\* utils.py:68-81, on odds of 19 and more digits.
CallAmericanOddsToProbabilityOfPower ==
    /\ call.fn = "american_odds_to_probability of a power of ten"
    /\ result = NoResult
    /\ result' = [state |-> "returned",
                  val |-> american_odds_to_probability_of_power(call.sign,
                                                                call.digits)]
    /\ Frame

\* utils.py:84-95
CallKellyCriterion ==
    /\ call.fn = "kelly_criterion" /\ result = NoResult
    /\ result' = [state |-> "returned", val |-> kelly_criterion(call.p, call.b)]
    /\ Frame

\* utils.py:98-118
CallShouldWager ==
    /\ call.fn = "should_wager" /\ result = NoResult
    /\ result' = [state |-> "returned",
                  val |-> should_wager(call.book_odds, call.polymarket_odds)]
    /\ Frame

\* The value a conversion returned is handed to the other conversion.
ConvertBack ==
    /\ result.state = "returned"
    /\ \/ /\ call.fn = "probability_to_american_odds"
          /\ result' = [state |-> "back", val |-> result.val,
                        back |-> american_odds_to_probability(result.val)]
       \/ /\ call.fn = "american_odds_to_probability"
          /\ LET r == probability_to_american_odds(result.val \o <<0>>) IN
               result' = IF r.error # ""
                         THEN [state |-> "back raised", val |-> result.val,
                               error |-> r.error]
                         ELSE [state |-> "back", val |-> result.val,
                               back |-> r.val]
    /\ Frame

NextOdds ==
    \/ CallProbabilityToAmericanOdds
    \/ CallAmericanOddsToProbability
    \/ CallAmericanOddsToProbabilityOfPower
    \/ CallKellyCriterion
    \/ CallShouldWager
    \/ ConvertBack

SpecOdds == InitOdds /\ [][NextOdds]_vars

\* ------------------------------------------- place_wagers, step by step
\* A call place_wagers(df, context, unit_size, dry_run); doms[k] is what the
\* browser does while row k is handled.
PlaceCalls ==
    UNION { { [fn |-> "place_wagers", df |-> df, doms |-> d, dry_run |-> dry] :
                d \in [1 .. Len(df) -> Doms], dry \in BOOLEAN } :
            df \in SeqsUpTo(PlaceRows, MaxQuotes) }

InitPlace ==
    /\ book_odds = <<>> /\ polymarket_odds = <<>> /\ teams_list = <<>>
    /\ diffs = NotCalled
    /\ pc = "idle" /\ dry_run = TRUE /\ timeout = <<>>
    /\ ledger = <<>> /\ preexisting = 0 /\ now = 0 /\ no_games_count = 0
    /\ opportunities = <<>> /\ existing = <<>> /\ latest_wagers = <<>>
    /\ new_opps = <<>> /\ did_place = <<>> /\ bought = <<>>
    /\ outcome = "none" /\ streak = 0
    /\ call \in PlaceCalls
    /\ result = NoResult

\* While the call runs, result holds its position: the row k of the loop,
\* the statement it stands at, the results list, the steps carried out for
\* row k so far, and a log of the rows handled: row, status ("" when none
\* was appended, "raised" when an exception left the function) and steps.
InLoop(at) ==
    /\ call.fn = "place_wagers" /\ result.state = "in loop"
    /\ result.at = at

\* polymarket.py:275 and 333: the next row, or the return after the last.
NextRow(results, entry) ==
    result' = [ state   |-> IF result.k + 1 > Len(call.df) THEN "returned"
                            ELSE "in loop",
                k       |-> result.k + 1,
                at      |-> "row",
                results |-> results,
                steps   |-> <<>>,
                log     |-> Append(result.log, entry) ]

\* results.append(status); continue
Finish(status, steps) ==
    NextRow(Append(result.results, status),
            [k |-> result.k, status |-> status, steps |-> steps])

\* An exception leaves place_wagers.
Raised(steps) ==
    result' = [result EXCEPT
                 !.state = "raised",
                 !.log = Append(@, [k |-> result.k, status |-> "raised",
                                    steps |-> steps])]

Goto(at, steps) == result' = [result EXCEPT !.at = at, !.steps = steps]

\* polymarket.py:274-275
EnterLoop ==
    /\ call.fn = "place_wagers" /\ result = NoResult
    /\ result' = [ state   |-> IF call.df = <<>> THEN "returned" ELSE "in loop",
                   k       |-> 1,
                   at      |-> "row",
                   results |-> <<>>,
                   steps   |-> <<>>,
                   log     |-> <<>> ]
    /\ Frame

\* polymarket.py:277-278
CheckWager ==
    /\ InLoop("row")
    /\ IF ~call.df[result.k].Wager
       THEN NextRow(result.results,
                    [k |-> result.k, status |-> "", steps |-> <<>>])
       ELSE Goto("find", <<>>)
    /\ Frame

\* polymarket.py:281-290
ClickTeam ==
    /\ InLoop("find")
    /\ LET fault == call.doms[result.k].fault IN
       IF call.df[result.k].Team \notin DOMAIN NBA_TEAM_TO_POLYMARKET_ABBREVIATION
       THEN Raised(result.steps)
       ELSE IF fault = "no button" THEN Finish("Team not selected", result.steps)
       ELSE IF fault = "click raises" THEN Raised(result.steps)
       ELSE Goto("amount", Append(result.steps, "click team"))
    /\ Frame

\* polymarket.py:293-297
CheckAmount ==
    /\ InLoop("amount")
    /\ IF WagerTooSmall(call.df[result.k])
       THEN Finish("Wager too small", result.steps)
       ELSE Goto("send_keys", Append(result.steps, "amount ok"))
    /\ Frame

\* polymarket.py:300
EnterAmount ==
    /\ InLoop("send_keys")
    /\ IF call.doms[result.k].fault = "send_keys raises"
       THEN Raised(result.steps)
       ELSE Goto("team", Append(result.steps, "enter amount"))
    /\ Frame

\* polymarket.py:304-306, and 329-331 when reading the panel raises.
CheckPanelTeam ==
    /\ InLoop("team")
    /\ LET fault == call.doms[result.k].fault IN
       IF fault = "panel raises" THEN Finish("Exception", result.steps)
       ELSE IF fault = "wrong team"
       THEN Finish("Team not selected", result.steps)
       ELSE Goto("price", Append(result.steps, "team shown"))
    /\ Frame

\* polymarket.py:307-313
CheckPanelPrice ==
    /\ InLoop("price")
    /\ IF ~ShowsCents(call.doms[result.k].panel,
                      float_to_cents(call.df[result.k].PolymarketPrice))
       THEN Finish("Price changed", result.steps)
       ELSE Goto("dry_run", Append(result.steps, "price shown"))
    /\ Frame

\* polymarket.py:315-317
CheckDryRun ==
    /\ InLoop("dry_run")
    /\ IF call.dry_run THEN Finish("Dry run", result.steps)
       ELSE Goto("buy", result.steps)
    /\ Frame

\* polymarket.py:318-319, and 329-331 when the click raises.
ClickBuy ==
    /\ InLoop("buy")
    /\ IF call.doms[result.k].fault = "buy raises"
       THEN Finish("Exception", result.steps)
       ELSE Goto("balance", Append(result.steps, "click buy"))
    /\ Frame

\* polymarket.py:320-322, and 329-331 when reading the panel raises.
CheckBalance ==
    /\ InLoop("balance")
    /\ LET fault == call.doms[result.k].fault IN
       IF fault = "after buy raises" THEN Finish("Exception", result.steps)
       ELSE IF fault = "insufficient"
       THEN Finish("Insufficient balance", result.steps)
       ELSE Goto("sign", Append(result.steps, "balance ok"))
    /\ Frame

\* polymarket.py:324-328; sign_wager (178-251) returns False on any failure
\* of its own and True once the buy button reads "bought".
SignWager ==
    /\ InLoop("sign")
    /\ IF call.doms[result.k].fault = "sign fails"
       THEN Finish("Signature failed", result.steps)
       ELSE Finish("Placed", Append(result.steps, "signed"))
    /\ Frame

NextPlace ==
    \/ EnterLoop
    \/ CheckWager
    \/ ClickTeam
    \/ CheckAmount
    \/ EnterAmount
    \/ CheckPanelTeam
    \/ CheckPanelPrice
    \/ CheckDryRun
    \/ ClickBuy
    \/ CheckBalance
    \/ SignWager

SpecPlace == InitPlace /\ [][NextPlace]_vars

\* --------------------------------------------------------------- games.py
\* Calendar days are numbered; yesterday is day MaxDays and the walk of
\* scrape_missing_dates is followed down to day 0.
MaxDays == 3
Yesterday == MaxDays

\* What one load of an ESPN scoreboard page gives: scoreboards with
\* results, scoreboards without a finished game, or no scoreboard within the
\* wait (WebDriverWait.until raises TimeoutException).
Loads == {"games", "no games", "timeout"}

\* games.py:194-229, for the outcomes loads[1], loads[2], ... of the page
\* loads it makes.  The try statement has a finally clause and no except
\* clause: an exception of the load leaves the function after driver.quit().
\* attempts is incremented after a load that found scoreboards, and the
\* body then raises or returns, so the while loop has no second pass.
\* gets counts the calls of driver.get, quits those of driver.quit.
scrape_espn(loads) ==
    LET attempts == 0 IN
    IF attempts < 3
    THEN IF loads[1] = "timeout"
         THEN [state |-> "raised", error |-> "TimeoutException",
               gets |-> 1, quits |-> 1]
         ELSE IF attempts + 1 = 3
         THEN [state |-> "raised",
               error |-> "Failed to find scoreboards after 3 attempts.",
               gets |-> 1, quits |-> 1]
         ELSE [state |-> "returned", slate |-> loads[1],
               gets |-> 1, quits |-> 1]
    ELSE [state |-> "returned", slate |-> "None", gets |-> 0, quits |-> 0]

previous_day_but_one(current) == current - 2

\* games.py:331: current -= timedelta(days=1)
previous_day(current) == current - 1

\* A call scrape_espn(date) with the outcomes of up to three loads, or a call
\* scrape_missing_dates(path) on a file with entries for the days outcomes,
\* pages[d] being what the page of day d gives whenever it is loaded.
ScrapeCalls ==
    { [fn |-> "scrape_espn", loads |-> l] : l \in [1 .. 3 -> Loads] } \cup
    { [fn |-> "scrape_missing_dates", outcomes |-> o, pages |-> g] :
        o \in SUBSET (0 .. MaxDays), g \in [0 .. MaxDays -> Loads] }

InitScrape ==
    /\ book_odds = <<>> /\ polymarket_odds = <<>> /\ teams_list = <<>>
    /\ diffs = NotCalled
    /\ pc = "idle" /\ dry_run = TRUE /\ timeout = <<>>
    /\ ledger = <<>> /\ preexisting = 0 /\ now = 0 /\ no_games_count = 0
    /\ opportunities = <<>> /\ existing = <<>> /\ latest_wagers = <<>>
    /\ new_opps = <<>> /\ did_place = <<>> /\ bought = <<>>
    /\ outcome = "none" /\ streak = 0
    /\ call \in ScrapeCalls
    /\ result = NoResult

\* games.py:194-229
CallScrapeEspn ==
    /\ call.fn = "scrape_espn" /\ result = NoResult
    /\ result' = scrape_espn(call.loads)
    /\ Frame

\* games.py:303-312.  While the call runs, result holds the local current,
\* the statement it stands at, and what it has done: the days scrape_espn
\* was called for, those whose slate was saved and those whose scrape
\* failed, in order.
EnterScrapeMissingDates ==
    /\ call.fn = "scrape_missing_dates" /\ result = NoResult
    /\ result' = [ state |-> "in loop", at |-> "test", current |-> Yesterday,
                   scraped |-> <<>>, saved |-> <<>>, failed |-> <<>> ]
    /\ Frame

AtDate(at) ==
    /\ call.fn = "scrape_missing_dates" /\ result.state = "in loop"
    /\ result.at = at

\* games.py:314-317
TestDate ==
    /\ AtDate("test")
    /\ result' = IF result.current \in call.outcomes
                 THEN [result EXCEPT !.state = "returned"]
                 ELSE [result EXCEPT !.at = "scrape"]
    /\ Frame

\* games.py:319-329
ScrapeDate ==
    /\ AtDate("scrape")
    /\ LET slate == scrape_espn([j \in 1 .. 3 |-> call.pages[result.current]])
       IN  result' =
             [result EXCEPT
                !.at = "step",
                !.scraped = Append(@, result.current),
                !.saved = IF slate.state = "returned" /\ slate.slate = "games"
                          THEN Append(@, result.current) ELSE @,
                !.failed = IF slate.state = "raised"
                           THEN Append(@, result.current) ELSE @]
    /\ Frame

\* games.py:331, followed down to day 0.
PreviousDay ==
    /\ AtDate("step")
    /\ previous_day(result.current) >= 0
    /\ result' = [result EXCEPT !.at = "test",
                                !.current = previous_day(result.current)]
    /\ Frame

NextScrape ==
    \/ CallScrapeEspn
    \/ EnterScrapeMissingDates
    \/ TestDate
    \/ ScrapeDate
    \/ PreviousDay

\* The calls run to their end: the code is sequential and every statement
\* of it returns.
SpecScrape == InitScrape /\ [][NextScrape]_vars /\ WF_vars(NextScrape)

\* ------------------------------------ commands/0002_remove_wagers_by_date.py
MaxWagers == 2
SecondsPerDay == 86400

\* A Timestamp is a reading of time.time() (sandbox.py:513), a float:
\* <<s, h>> is s seconds and h halves of a second after the epoch.  Day d
\* begins at d * SecondsPerDay.
\* Series.between(left, right) for whole seconds left and right: both ends
\* are inclusive.
between(ts, left, right) ==
    /\ ts[1] >= left
    /\ ts[1] < right \/ (ts[1] = right /\ ts[2] = 0)

\* commands/0002_remove_wagers_by_date.py:7-50: written is the frame saved
\* by df.to_csv, val the value returned.  The file at csv_path is only read.
remove_wagers_by_date(target_date, df, teams) ==
    LET start_ts == target_date * SecondsPerDay
        end_ts == target_date * SecondsPerDay + 23 * 3600 + 59 * 60 + 59
        selected(row) ==
            IF Truthy(teams)
            THEN between(row.Timestamp, start_ts, end_ts)
                 /\ row.Team \in teams[1]
            ELSE between(row.Timestamp, start_ts, end_ts)
        kept(row) == ~selected(row)
    IN  [ state   |-> "returned",
          written |-> SelectSeq(df, kept),
          val     |-> Len(SelectSeq(df, selected)) ]

\* Wagers of two teams around the ends of day 1.
WagerStamps ==
    { <<SecondsPerDay - 1, 1>>, <<SecondsPerDay, 0>>,
      <<SecondsPerDay + 43200, 1>>, <<2 * SecondsPerDay - 1, 0>>,
      <<2 * SecondsPerDay - 1, 1>>, <<2 * SecondsPerDay, 0>> }
WagerRows == [Team : {"Lakers", "Celtics"}, Timestamp : WagerStamps]

RemoveCalls ==
    { [fn |-> "remove_wagers_by_date", target_date |-> 1, df |-> df,
       teams |-> t] :
        df \in SeqsUpTo(WagerRows, MaxWagers),
        t \in { <<>>, << {} >>, << {"Lakers"} >> } }

InitRemove ==
    /\ book_odds = <<>> /\ polymarket_odds = <<>> /\ teams_list = <<>>
    /\ diffs = NotCalled
    /\ pc = "idle" /\ dry_run = TRUE /\ timeout = <<>>
    /\ ledger = <<>> /\ preexisting = 0 /\ now = 0 /\ no_games_count = 0
    /\ opportunities = <<>> /\ existing = <<>> /\ latest_wagers = <<>>
    /\ new_opps = <<>> /\ did_place = <<>> /\ bought = <<>>
    /\ outcome = "none" /\ streak = 0
    /\ call \in RemoveCalls
    /\ result = NoResult

CallRemoveWagersByDate ==
    /\ call.fn = "remove_wagers_by_date" /\ result = NoResult
    /\ result' = remove_wagers_by_date(call.target_date, call.df, call.teams)
    /\ Frame

NextRemove == CallRemoveWagersByDate

SpecRemove == InitRemove /\ [][NextRemove]_vars

\* ------------------------------------------------------------ analysis.py
MaxRecords == 2
HoursPerDay == 24

\* Exact fractions <<num, den>>, den > 0, in lowest terms.
RECURSIVE GCD(_, _)
GCD(a, b) == IF b = 0 THEN a ELSE GCD(b, a % b)
Frac(n, d) == LET g == GCD(Abs(n), d) IN << n \div g, d \div g >>
FracAdd(a, b) == Frac(a[1] * b[2] + b[1] * a[2], a[2] * b[2])
FracSub(a, b) == Frac(a[1] * b[2] - b[1] * a[2], a[2] * b[2])
FracMul(a, b) == Frac(a[1] * b[1], a[2] * b[2])
FracLess(a, b) == a[1] * b[2] < b[1] * a[2]

\* analysis.py:176
RISK_FREE_RATE == Frac(46, 1000)

\* analysis.py:38: the local calendar date of a Timestamp, which is counted
\* here in hours.
DateOf(timestamp) == timestamp \div HoursPerDay

Known(outcomes, date, team) ==
    date \in DOMAIN outcomes /\ team \in DOMAIN outcomes[date]

\* analysis.py:27-45: the outcome, or the KeyError of the second lookup.
row_to_outcome(row, outcomes) ==
    LET date == DateOf(row.Timestamp)
        new_date == DateOf(row.Timestamp - 1)
    IN  IF Known(outcomes, date, row.Team)
        THEN [raised |-> FALSE, val |-> outcomes[date][row.Team]]
        ELSE IF Known(outcomes, new_date, row.Team)
        THEN [raised |-> FALSE, val |-> outcomes[new_date][row.Team]]
        ELSE [raised |-> TRUE, val |-> 0]

\* analysis.py:201-219
odds_to_price(american_odds) ==
    IF american_odds > 0 THEN Frac(100, american_odds + 100)
    ELSE Frac(Abs(american_odds), Abs(american_odds) + 100)

\* analysis.py:59-85 with intervals = None: the ledger with the columns
\* price and outcome, or the KeyError of row_to_outcome.
formatted_df(rows, outcomes) ==
    IF \E j \in 1 .. Len(rows) : row_to_outcome(rows[j], outcomes).raised
    THEN [raised |-> TRUE, rows |-> <<>>]
    ELSE [raised |-> FALSE,
          rows |-> [j \in 1 .. Len(rows) |->
             [ Team            |-> rows[j].Team,
               KellySize       |-> rows[j].KellySize,
               PolymarketOdds  |-> rows[j].PolymarketOdds,
               PolymarketPrice |-> rows[j].PolymarketPrice,
               Timestamp       |-> rows[j].Timestamp,
               price           |-> odds_to_price(rows[j].PolymarketOdds),
               outcome         |-> row_to_outcome(rows[j], outcomes).val ]]]

\* analysis.py:88-93: the stake of a strategy on a row; Kelly Size is kept in
\* hundredths.
StrategyNames == { "Kelly", "Half Kelly", "Equal Weight", "Custom" }
strategies(name, row) ==
    CASE name = "Kelly"        -> Frac(row.KellySize, 100)
      [] name = "Half Kelly"   -> Frac(row.KellySize, 200)
      [] name = "Equal Weight" -> <<1, 1>>
      [] name = "Custom"       -> IF row.KellySize < 500
                                  THEN Frac(row.KellySize, 100) ELSE <<5, 1>>

\* analysis.py:104: df.sort_values("Timestamp"), pandas' default quicksort:
\* rows of equal Timestamp come out in any order.
sort_values_Timestamp(rows) ==
    { s \in Reorderings(rows) :
        \A j \in 1 .. Len(s) - 1 : s[j].Timestamp <= s[j + 1].Timestamp }

\* analysis.py:108-116: pl_values of one strategy over the sorted rows.
RECURSIVE pl_values(_, _, _, _, _)
pl_values(df, name, k, running_pl, values) ==
    IF k > Len(df) THEN values
    ELSE LET bet_size == strategies(name, df[k])
             won == IF df[k].outcome = 1 THEN FracAdd(running_pl, bet_size)
                    ELSE running_pl
             pl == FracSub(won, FracMul(bet_size, df[k].price))
         IN  pl_values(df, name, k + 1, pl, Append(values, pl))

\* analysis.py:96-125: the curves strategy_sim plots, one per strategy.
strategy_sim(df) ==
    { [name \in StrategyNames |-> pl_values(sorted, name, 1, <<0, 1>>, <<>>)] :
        sorted \in sort_values_Timestamp(df) }

RECURSIVE FracSum(_, _)
FracSum(r, k) == IF k > Len(r) THEN <<0, 1>> ELSE FracAdd(r[k], FracSum(r, k + 1))

\* analysis.py:195-196: (returns.mean() - RISK_FREE_RATE) / returns.std() on
\* numpy floats.  Series.std() is NaN below two values.  When all values
\* are equal the exact deviation is 0: for two values the float mean is the
\* value itself, std() is 0.0 and the quotient is inf, -inf or (0 / 0) nan
\* without any error; for more values the float mean may miss the value by
\* an ulp and the quotient is then a huge finite number.
sharpe(returns) ==
    LET mean == LET t == FracSum(returns, 1)
                IN  Frac(t[1], t[2] * Len(returns))
        over_zero == IF FracLess(RISK_FREE_RATE, mean) THEN "inf"
                     ELSE IF FracLess(mean, RISK_FREE_RATE) THEN "-inf"
                     ELSE "nan"
    IN  IF Len(returns) < 2 THEN { "nan" }
        ELSE IF \A j \in 1 .. Len(returns) : returns[j] = returns[1]
        THEN IF Len(returns) = 2 THEN { over_zero }
             ELSE { over_zero, "finite" }
        ELSE { "finite" }

\* analysis.py:168-198: what calculate_sharpe_ratio can return.
calculate_sharpe_ratio(df) ==
    LET kelly_returns ==
            [j \in 1 .. Len(df) |->
               FracMul(Frac(df[j].KellySize, 100),
                       FracSub(<<df[j].outcome, 1>>, df[j].price))]
        equal_weight_returns ==
            [j \in 1 .. Len(df) |-> FracSub(<<df[j].outcome, 1>>, df[j].price)]
    IN  { [kelly |-> k, equal |-> q] :
            k \in sharpe(kelly_returns), q \in sharpe(equal_weight_returns) }

\* Ledger records: a Lakers wager at +117 for 0.46 or at -150 for 0.60, at
\* noon of day 0 or just after midnight of day 1.
LedgerRecords ==
    { [ Team |-> "Lakers", KellySize |-> k, PolymarketOdds |-> q[1],
        PolymarketPrice |-> q[2], Timestamp |-> t ] :
        k \in {250, 1000}, q \in { <<117, 46>>, <<-150, 60>> }, t \in {12, 24} }

\* The outcomes file: for each of day 0 and day 1 nothing, or an entry with
\* a result for the Lakers or for the Celtics only.
OutcomeStores ==
    UNION { [D -> { [t \in {"Lakers"} |-> 0], [t \in {"Lakers"} |-> 1],
                    [t \in {"Celtics"} |-> 1] }] : D \in SUBSET {0, 1} }

Frames ==
    { formatted_df(rows, outcomes).rows :
        rows \in SeqsUpTo(LedgerRecords, MaxRecords),
        outcomes \in OutcomeStores }

AnalysisCalls ==
    { [fn |-> "row_to_outcome",
       row |-> [Team |-> "Lakers", Timestamp |-> t], outcomes |-> o] :
        t \in {0, 12, 24, 25, 47}, o \in OutcomeStores } \cup
    { [fn |-> "strategy_sim", df |-> df] : df \in Frames } \cup
    { [fn |-> "calculate_sharpe_ratio", df |-> df] : df \in Frames }

InitAnalysis ==
    /\ book_odds = <<>> /\ polymarket_odds = <<>> /\ teams_list = <<>>
    /\ diffs = NotCalled
    /\ pc = "idle" /\ dry_run = TRUE /\ timeout = <<>>
    /\ ledger = <<>> /\ preexisting = 0 /\ now = 0 /\ no_games_count = 0
    /\ opportunities = <<>> /\ existing = <<>> /\ latest_wagers = <<>>
    /\ new_opps = <<>> /\ did_place = <<>> /\ bought = <<>>
    /\ outcome = "none" /\ streak = 0
    /\ call \in AnalysisCalls
    /\ result = NoResult

\* analysis.py:27-45
CallRowToOutcome ==
    /\ call.fn = "row_to_outcome" /\ result = NoResult
    /\ LET r == row_to_outcome(call.row, call.outcomes) IN
         result' = IF r.raised THEN [state |-> "raised", error |-> "KeyError"]
                   ELSE [state |-> "returned", val |-> r.val]
    /\ Frame

\* analysis.py:96-125
CallStrategySim ==
    /\ call.fn = "strategy_sim" /\ result = NoResult
    /\ \E curves \in strategy_sim(call.df) :
          result' = [state |-> "returned", val |-> curves]
    /\ Frame

\* analysis.py:168-198
CallCalculateSharpeRatio ==
    /\ call.fn = "calculate_sharpe_ratio" /\ result = NoResult
    /\ \E ratios \in calculate_sharpe_ratio(call.df) :
          result' = [state |-> "returned", val |-> ratios]
    /\ Frame

NextAnalysis == CallRowToOutcome \/ CallStrategySim \/ CallCalculateSharpeRatio

SpecAnalysis == InitAnalysis /\ [][NextAnalysis]_vars

\* ==================================================== claims, SpecDetect
Returned == diffs.state = "returned"
RowIds == 1 .. Len(diffs.rows)

Usable(k) ==
    LET q == book_odds[k] IN
    /\ ~(Truthy(teams_list) /\ q.team \notin teams_list[1])
    /\ q.moneyline # <<>> /\ q.moneyline[1] # 0
    /\ \E m \in 1 .. Len(polymarket_odds) :
         \/ /\ q.team = "Lakers" /\ polymarket_odds[m].away_team = "LAL"
            /\ polymarket_odds[m].away_team_price \in 1 .. 99
         \/ /\ q.team = "Celtics" /\ polymarket_odds[m].home_team = "BOS"
            /\ polymarket_odds[m].home_team_price \in 1 .. 99

\* C4: process_odds_data never raises, whatever the quotes and the market
\* prices (negative, 0, exactly 1, above 1, no market, nothing at all): it
\* returns, the offending teams are absent and every other team's
\* opportunity is there.
C4_NeverRaises ==
    /\ diffs.state # "raised"
    /\ Returned =>
         \A k \in 1 .. Len(book_odds) :
            Usable(k) =>
               \E j \in RowIds :
                  /\ diffs.rows[j].Team = book_odds[k].team
                  /\ diffs.rows[j].BookOdds = book_odds[k].moneyline[1]

\* The exact value 100 * max(0, pBook - (1 - pBook) / netOdds) of a row, in
\* hundredths of a percent, as the fraction <<num, den>>.
ExactKellyHundredths(row) ==
    LET o == row.BookOdds
        c == row.PolymarketPrice
        n == IF o > 0 THEN 100 ELSE -o
        d == IF o > 0 THEN o + 100 ELSE 100 - o
        edge == n * (100 - c) - (d - n) * c
    IN  << 10000 * (IF edge > 0 THEN edge ELSE 0), d * (100 - c) >>

\* C5: the Kelly Size of a returned row is 100 * max(0, pBook - (1 - pBook)
\* / netOdds) rounded to two decimals when Wager is true (it is within half
\* a hundredth of the exact value), and exactly 0 when Wager is false.
C5_KellySizeFormula ==
    Returned =>
      \A j \in RowIds :
         LET row == diffs.rows[j]
             e == ExactKellyHundredths(row)
         IN  /\ row.Wager => 2 * Abs(row.KellySize * e[2] - e[1]) <= e[2]
             /\ ~row.Wager => row.KellySize = 0

C5_Witness ==
    /\ Returned
    /\ \E j, k \in RowIds :
         /\ diffs.rows[j].Wager /\ diffs.rows[j].KellySize > 0
         /\ ~diffs.rows[k].Wager
         /\ ExactKellyHundredths(diffs.rows[k])[1] > 0

\* C9 as stated: the returned rows are ordered by Kelly Size descending and
\* rows of equal Kelly Size keep the order their quotes had in the input.
C9_StableDescending ==
    Returned =>
      \A j, k \in RowIds :
         j < k =>
            \/ diffs.rows[j].KellySize > diffs.rows[k].KellySize
            \/ /\ diffs.rows[j].KellySize = diffs.rows[k].KellySize
               /\ diffs.rows[j].index < diffs.rows[k].index

\* C9, amended: the returned rows are the emitted rows, each once, ordered by
\* Kelly Size descending; rows of different Kelly Size are moved as the order
\* needs, rows of equal Kelly Size come in no particular order.
C9_DescendingPermutation ==
    Returned =>
      /\ \A j, k \in RowIds :
            j < k => diffs.rows[j].KellySize >= diffs.rows[k].KellySize
      /\ { diffs.rows[j].index : j \in RowIds } = 0 .. Len(diffs.rows) - 1
      /\ \A j \in RowIds :
            diffs.rows[j] \in
               { r \in { process_rows_from(book_odds, polymarket_odds,
                                           teams_list, 1, <<>>).rows[i] :
                           i \in RowIds } : r.index = diffs.rows[j].index }

C9_Witness ==
    /\ Returned
    /\ \E j, k \in RowIds :
         /\ j < k
         /\ diffs.rows[j].KellySize > diffs.rows[k].KellySize
         /\ diffs.rows[j].index > diffs.rows[k].index

\* C11 as stated: a quote of -150 against a price of 0.50 gives market odds
\* of +100 and a Diff of 250.
C11_EvenPricePlus100 ==
    Returned =>
      \A j \in RowIds :
         (diffs.rows[j].BookOdds = -150 /\ diffs.rows[j].PolymarketPrice = 50)
         => (diffs.rows[j].PolymarketOdds = 100 /\ diffs.rows[j].Diff = 250)

\* C11, amended: a quote of -150 against a price of 0.50 gives market odds
\* of -100 (a price of 0.50 takes the favorite branch) and a Diff of
\* |-150 - (-100)| = 50.
C11_EvenPriceMinus100 ==
    Returned =>
      \A j \in RowIds :
         (diffs.rows[j].BookOdds = -150 /\ diffs.rows[j].PolymarketPrice = 50)
         => (diffs.rows[j].PolymarketOdds = -100 /\ diffs.rows[j].Diff = 50)

C11_Witness ==
    /\ Returned
    /\ \E j \in RowIds :
          /\ diffs.rows[j].BookOdds = -150
          /\ diffs.rows[j].PolymarketPrice = 50
          /\ diffs.rows[j].Wager /\ diffs.rows[j].KellySize = 2000

\* C22: with a team filter supplied, only quotes whose team is in the filter
\* produce a row (a filter of no teams gives no rows); with no filter every
\* quote is considered, so every quote with a moneyline and a price gives
\* a row.
C22_OnlyFilteredTeams ==
    Returned =>
      /\ teams_list # <<>> =>
            \A j \in RowIds : diffs.rows[j].Team \in teams_list[1]
      /\ teams_list = <<>> =>
            \A k \in 1 .. Len(book_odds) :
               Usable(k) => \E j \in RowIds :
                               diffs.rows[j].Team = book_odds[k].team

\* C29 as stated: every returned row with Wager true has Kelly Size
\* strictly greater than 0, for book odds with |Book Odds| >= 100 and prices
\* in whole cents from 0.01 to 0.99.
C29_WagerHasKellySize ==
    Returned =>
      \A j \in RowIds :
         LET row == diffs.rows[j] IN
         ( /\ row.Wager /\ Abs(row.BookOdds) >= 100
           /\ row.PolymarketPrice \in 1 .. 99 ) => row.KellySize > 0

\* C29, amended: every returned row with Wager true has a Kelly fraction
\* strictly greater than 0 before rounding, and a Kelly Size strictly
\* greater than 0 unless 100 * that fraction is at most 0.005, which the
\* rounding to two decimals turns into a Kelly Size of 0.00.
C29_WagerHasKellyFraction ==
    Returned =>
      \A j \in RowIds :
         LET row == diffs.rows[j]
             e == ExactKellyHundredths(row)
         IN  ( /\ row.Wager /\ Abs(row.BookOdds) >= 100
               /\ row.PolymarketPrice \in 1 .. 99 ) =>
                 /\ e[1] > 0
                 /\ row.KellySize > 0 \/ 2 * e[1] <= e[2]

\* A quote of +1328 against a price of 0.07 (market odds +1329) is
\* returned with Wager true and Kelly Size 0.00; another row has Wager true
\* and a Kelly Size above 0.
C29_Witness ==
    /\ Returned
    /\ \E j, k \in RowIds :
         /\ diffs.rows[j].BookOdds = 1328 /\ diffs.rows[j].PolymarketPrice = 7
         /\ diffs.rows[j].Wager /\ diffs.rows[j].KellySize = 0
         /\ diffs.rows[k].Wager /\ diffs.rows[k].KellySize > 0

\* ================================================ claims, Spec and SpecDedup

\* The columns process_odds_data gave a row, without what live adds.
Quote(row) ==
    [ Team |-> row.Team, Wager |-> row.Wager, KellySize |-> row.KellySize,
      Diff |-> row.Diff, BookOdds |-> row.BookOdds,
      PolymarketOdds |-> row.PolymarketOdds,
      PolymarketPrice |-> row.PolymarketPrice, Timestamp |-> row.Timestamp ]

\* The rows of file of team t with the greatest Timestamp among them.
LatestOf(file, t) ==
    { j \in 1 .. Len(file) :
        /\ file[j].Team = t
        /\ \A k \in 1 .. Len(file) :
              file[k].Team = t => file[k].Timestamp <= file[j].Timestamp }

\* The record the last cycle compared opportunity j against equals it in
\* Book Odds and Polymarket Price.
Dropped(j) ==
    /\ opportunities[j].Team \in DOMAIN latest_wagers
    /\ latest_wagers[opportunities[j].Team].BookOdds = opportunities[j].BookOdds
    /\ latest_wagers[opportunities[j].Team].PolymarketPrice
          = opportunities[j].PolymarketPrice

Kept == { j \in 1 .. Len(opportunities) : ~Dropped(j) }

\* The i-th smallest index of Kept.
KeptAt(i) == CHOOSE j \in Kept : Cardinality({ k \in Kept : k <= j }) = i

\* C2: in a cycle with opportunities, the record compared against is a
\* record of the ledger as read, of the opportunity's team; an opportunity
\* is dropped iff that record has equal Book Odds and equal Polymarket Price,
\* and the others (every team without a record, all of them on an empty
\* ledger) go on with their fields unchanged and in their order.
C2_DroppedIffLatestEqual ==
    opportunities # <<>> =>
        /\ DOMAIN latest_wagers = TeamsOf(existing)
        /\ \A t \in TeamsOf(existing) :
              \E j \in 1 .. Len(existing) :
                 existing[j].Team = t /\ latest_wagers[t] = existing[j]
        /\ Len(new_opps) = Cardinality(Kept)
        /\ \A i \in 1 .. Len(new_opps) :
              Quote(new_opps[i]) = Quote(opportunities[KeptAt(i)])

\* One opportunity is dropped and a later one of a team without a record
\* goes on, and an opportunity goes on although its team has a record.
C2_Witness ==
    /\ Len(opportunities) = 2 /\ Dropped(1) /\ ~Dropped(2)
    /\ opportunities[2].Team \notin TeamsOf(existing)
    /\ Len(new_opps) = 1 /\ new_opps[1].Team = opportunities[2].Team

Appended == { k \in 1 .. Len(ledger) : k > preexisting }

\* The records before k of k's team, written before k's cycle, that are the
\* latest of these.
LatestEarlier(k) ==
    { j \in 1 .. k - 1 :
        /\ ledger[j].Team = ledger[k].Team
        /\ ledger[j].Timestamp < ledger[k].Timestamp
        /\ \A i \in 1 .. k - 1 :
              (ledger[i].Team = ledger[k].Team
                 /\ ledger[i].Timestamp < ledger[k].Timestamp)
              => ledger[i].Timestamp <= ledger[j].Timestamp }

\* C3: every record live has appended has Wager = true and differs in Book
\* Odds or in Polymarket Price from the latest earlier record of its team.
C3_AppendedIsNewWager ==
    \A k \in Appended :
        /\ ledger[k].Wager
        /\ \A j \in LatestEarlier(k) :
              \/ ledger[j].BookOdds # ledger[k].BookOdds
              \/ ledger[j].PolymarketPrice # ledger[k].PolymarketPrice

\* A record was appended after an earlier one of its team, and the cycle
\* after that dropped every opportunity as a repeat.
C3_Witness ==
    /\ \E k \in Appended : LatestEarlier(k) # {}
    /\ opportunities # <<>>
    /\ outcome = "no new wagers"

\* C6: with dry_run true the buy button is never clicked; live appends only
\* "Dry run" records, and place_wagers returns none of Placed, Insufficient
\* balance, Signature failed.
C6_DryRunPlacesNothing ==
    dry_run =>
        /\ bought = <<>>
        /\ \A k \in Appended : ledger[k].WagerPlaced = "Dry run"
        /\ pc = "called" =>
              \A i \in 1 .. Len(did_place) :
                 did_place[i] \notin
                    {"Placed", "Insufficient balance", "Signature failed"}

\* live in dry run has appended in two cycles.
C6_Witness ==
    /\ dry_run /\ pc = "running"
    /\ \E k \in Appended : \E j \in Appended :
          ledger[j].Timestamp < ledger[k].Timestamp

\* place_wagers with dry_run=True reached the dry-run return for a row.
C6_WitnessCalled ==
    /\ dry_run /\ pc = "called"
    /\ \E i \in 1 .. Len(did_place) : did_place[i] = "Dry run"

IsPrefix(s, t) ==
    /\ Len(s) <= Len(t)
    /\ \A j \in 1 .. Len(s) : s[j] = t[j]

\* C7: every step leaves the ledger as it was or longer, with the earlier
\* contents as an unchanged prefix.
C7_AppendOnly == [][IsPrefix(ledger, ledger')]_vars

\* A file that held a row has grown, and a later cycle ended in an
\* exception.
C7_Witness ==
    /\ preexisting > 0 /\ Len(ledger) > preexisting
    /\ outcome = "error"

\* C8 as stated: the record compared against is, of its team's records, the
\* last in file order of those with the greatest Timestamp.
C8_LatestLastOnTies ==
    opportunities # <<>> =>
        \A t \in TeamsOf(existing) :
           \E j \in LatestOf(existing, t) :
              /\ latest_wagers[t] = existing[j]
              /\ \A k \in LatestOf(existing, t) : k <= j

\* C8: the record compared against is, of its team's records, one with the
\* greatest Timestamp; an opportunity equal only to older records of its
\* team goes on.
C8_LatestByTimestamp ==
    opportunities # <<>> =>
        /\ \A t \in TeamsOf(existing) :
              \E j \in LatestOf(existing, t) : latest_wagers[t] = existing[j]
        /\ \A i \in 1 .. Len(opportunities) :
              (\A j \in LatestOf(existing, opportunities[i].Team) :
                  \/ existing[j].BookOdds # opportunities[i].BookOdds
                  \/ existing[j].PolymarketPrice
                        # opportunities[i].PolymarketPrice)
              => \E n \in 1 .. Len(new_opps) :
                    Quote(new_opps[n]) = Quote(opportunities[i])

\* An opportunity equal to an older record of its team, and to no latest
\* one, went on; the older record comes last in the file.
C8_Witness ==
    /\ Len(existing) = 2
    /\ existing[2].Timestamp < existing[1].Timestamp
    /\ \E i \in 1 .. Len(opportunities) :
          /\ opportunities[i].Team = existing[2].Team
          /\ opportunities[i].BookOdds = existing[2].BookOdds
          /\ opportunities[i].PolymarketPrice = existing[2].PolymarketPrice
          /\ opportunities[i].PolymarketPrice # existing[1].PolymarketPrice
          /\ \E n \in 1 .. Len(new_opps) :
                Quote(new_opps[n]) = Quote(opportunities[i])

\* C10: every record live has appended carries one of the eight
\* PolymarketWagerStatus values.
C10_AppendedHasStatus ==
    \A k \in Appended : ledger[k].WagerPlaced \in PolymarketWagerStatus

\* Records with three different statuses have been appended.
C10_Witness ==
    Cardinality({ ledger[k].WagerPlaced : k \in Appended }) >= 3

\* A status place_wagers can give a row of this amount.
StatusFits(status, row) ==
    /\ status \in PolymarketWagerStatus
    /\ status = "Wager too small" => WagerTooSmall(row)
    /\ WagerTooSmall(row) => status \in {"Team not selected", "Wager too small"}

\* C27: when place_wagers has returned, its list holds one status for each
\* row with Wager true, in row order (the i-th status is one the i-th such
\* row can get), and the i-th status live writes into the Wager Placed
\* column is the i-th status of the list.
C27_OneStatusPerWager ==
    /\ (pc = "called" /\ outcome = "returned") =>
          LET wagers == SelectSeq(new_opps, LAMBDA r : r.Wager) IN
          /\ Len(did_place) = Len(wagers)
          /\ \A i \in 1 .. Len(wagers) : StatusFits(did_place[i], wagers[i])
    /\ (pc # "called" /\ ~dry_run /\ outcome = "appended") =>
          /\ Len(did_place) = Len(new_opps)
          /\ \A i \in 1 .. Len(new_opps) :
                /\ new_opps[i].WagerPlaced = did_place[i]
                /\ StatusFits(did_place[i], new_opps[i])

\* live placed two opportunities in one cycle and wrote the two different
\* statuses place_wagers returned.
C27_Witness ==
    /\ pc = "running" /\ ~dry_run /\ outcome = "appended"
    /\ Len(new_opps) = 2
    /\ did_place = <<"Placed", "Wager too small">>
    /\ new_opps[1].WagerPlaced = "Placed"
    /\ new_opps[2].WagerPlaced = "Wager too small"

\* C26: a wager place_wagers submitted during a polling cycle (buy clicked
\* and signature confirmed) has a record in the ledger, appended in that
\* cycle, also when handling a later opportunity of the cycle failed.
C26_SubmittedIsRecorded ==
    (pc \in {"running", "returned"} /\ ~dry_run) =>
        \A i \in 1 .. Len(bought) :
           \E k \in Appended :
              /\ ledger[k].Team = bought[i]
              /\ ledger[k].Timestamp = now - 1
              /\ ledger[k].WagerPlaced = "Placed"

\* C12: with timeout = N > 0 live has returned for lack of games exactly
\* when N checks have found no live team since the last check that found
\* one (a check that finds a live team sets the count back to 0, a check
\* that fails leaves it); with timeout = None it never returns for lack of
\* games.
C12_TimeoutAfterNChecks ==
    /\ (timeout # <<>> /\ timeout[1] > 0) =>
          /\ (outcome = "timed out") <=> (streak >= timeout[1])
          /\ outcome = "timed out" => pc = "returned"
          /\ pc = "returned" => outcome \in {"timed out", "interrupted"}
    /\ timeout = <<>> =>
          /\ outcome # "timed out"
          /\ pc = "returned" => outcome = "interrupted"

\* live with timeout = 2 appended after a check without games, and later
\* returned for lack of games.
C12_Witness ==
    /\ timeout = <<2>> /\ outcome = "timed out" /\ pc = "returned"
    /\ Len(ledger) > preexisting

\* live without a timeout is still polling after MaxNoGames checks without
\* games.
C12_WitnessNone ==
    /\ timeout = <<>> /\ pc = "running" /\ streak = MaxNoGames

\* ========================================================= claims, SpecOdds

Converted(fn) == call.fn = fn /\ result.state \in {"back", "back raised"}

InsideUnit(p) == 0 < p[1] /\ (p[3] > 0 \/ p[1] < p[2])

\* C17: every probability p with 0 < p < 1, turned into odds and back,
\* comes back within 0.01 of p.
C17_ProbabilityRoundTrip ==
    ( /\ call.fn = "probability_to_american_odds"
      /\ InsideUnit(call.probability)
      /\ result.state \in {"raised", "back"} ) =>
        /\ result.state = "back"
        /\ LET p == call.probability
               den == p[2] * 10 ^ p[3]
               q == result.back
           IN  100 * Abs(q[1] * den - p[1] * q[2]) <= q[2] * den

\* C18: american_odds_to_probability called with odds = 0 fails instead of
\* returning a value.
C18_ZeroOddsFails ==
    ( /\ call.fn = "american_odds_to_probability" /\ call.odds = 0
      /\ result # NoResult ) => result.state = "raised"

\* C19: probability_to_american_odds fails with the invalid-probability
\* error for every p <= 0 and every p >= 1, and returns an integer for
\* every p with 0 < p < 1.
C19_FailsOutsideUnitOnly ==
    (call.fn = "probability_to_american_odds" /\ result # NoResult) =>
        IF InsideUnit(call.probability)
        THEN result.state \in {"returned", "back"} /\ result.val \in Int
        ELSE result.state = "raised" /\ result.error = "ValueError"

\* C20: kelly_criterion(p, b) is >= 0 for p in [0, 1] and b > 0, and is 0
\* whenever p <= 1 / (1 + b).
C20_KellyNonNegative ==
    (call.fn = "kelly_criterion" /\ result.state = "returned") =>
        /\ result.val[1] >= 0 /\ result.val[2] > 0
        /\ call.p[1] * (call.b[2] + call.b[1]) <= call.p[2] * call.b[2]
              => result.val[1] = 0

\* p = 0.25 against b = 1, strictly below 1 / (1 + b) = 0.5.
C20_Witness ==
    /\ call.fn = "kelly_criterion" /\ result.state = "returned"
    /\ call.p = <<5, 20>> /\ call.b = <<4, 4>>
    /\ result.val[1] = 0

C23_WagerAsDocumented ==
    (call.fn = "should_wager" /\ result.state = "returned") =>
        ( result.val <=>
            \/ call.book_odds < 0 /\ call.polymarket_odds > call.book_odds
            \/ call.book_odds > 0 /\ call.polymarket_odds < call.book_odds )

\* ======================================================= claims, SpecPlace

\* The steps of a row that was placed, in the order of the code.
PlacedSteps ==
    << "click team", "amount ok", "enter amount", "team shown", "price shown",
       "click buy", "balance ok", "signed" >>

\* The steps carried out before the step that gives the status.
StepsBefore(status) ==
    CASE status = "Team not selected"   -> { <<>>, SubSeq(PlacedSteps, 1, 3) }
      [] status = "Wager too small"      -> { SubSeq(PlacedSteps, 1, 1) }
      [] status = "Price changed"        -> { SubSeq(PlacedSteps, 1, 4) }
      [] status = "Dry run"              -> { SubSeq(PlacedSteps, 1, 5) }
      [] status = "Insufficient balance" -> { SubSeq(PlacedSteps, 1, 6) }
      [] status = "Signature failed"     -> { SubSeq(PlacedSteps, 1, 7) }
      [] status = "Placed"               -> { PlacedSteps }
      [] status = "Exception"            -> { SubSeq(PlacedSteps, 1, 3),
                                              SubSeq(PlacedSteps, 1, 5),
                                              SubSeq(PlacedSteps, 1, 6) }
      [] OTHER                          -> { <<>> }

\* C28: a row is reported Placed only after, in this order, its button was
\* clicked, the amount was at least 1 and at least the price, the panel
\* showed the team, the panel price equalled the recorded price in cents,
\* the buy button was clicked, no insufficient balance was shown and
\* sign_wager returned true; a step that fails gives its status, and no
\* later step is carried out for the row.
C28_PlacedAfterEveryStep ==
    (call.fn = "place_wagers" /\ result # NoResult) =>
        \A j \in 1 .. Len(result.log) :
           LET entry == result.log[j]
               row == call.df[entry.k]
               dom == call.doms[entry.k]
           IN  /\ entry.status \in PolymarketWagerStatus \cup {""}
               /\ entry.steps \in StepsBefore(entry.status)
               /\ entry.status = "Placed" =>
                     /\ ~WagerTooSmall(row)
                     /\ dom.panel = row.PolymarketPrice
                     /\ dom.fault = "none"
                     /\ ~call.dry_run

\* ====================================================== claims, SpecScrape

\* What the walk of scrape_missing_dates has done so far is as C24 says:
\* the days scraped are yesterday, the day before, ... without a gap or a
\* repeat, none of them has an entry, the walk stands at most one day below
\* the last of them, a failed scrape is among them like any other, and once
\* the call has returned it stands on a day with an entry.
WalkAsStated ==
    (call.fn = "scrape_missing_dates" /\ result # NoResult) =>
        /\ \A i \in 1 .. Len(result.scraped) :
              /\ result.scraped[i] = Yesterday - (i - 1)
              /\ result.scraped[i] \notin call.outcomes
        /\ Yesterday - result.current \in
              { Len(result.scraped), Len(result.scraped) - 1 }
        /\ \A i \in 1 .. Len(result.failed) :
              result.failed[i] \in Range(result.scraped)
        /\ result.state = "returned" =>
              /\ result.current \in call.outcomes
              /\ Len(result.scraped) = Yesterday - result.current

\* C24: scrape_missing_dates walks the dates in strictly descending order
\* from yesterday, scrapes each date without an entry exactly once, goes on
\* to the next earlier date when a scrape fails, stops at the first date
\* with an entry, and so returns whenever a date on or before yesterday has
\* an entry.
C24_WalksBackToAnEntry ==
    /\ []WalkAsStated
    /\ (call.fn = "scrape_missing_dates" /\ call.outcomes # {})
          ~> (result.state = "returned")

\* The call returned at day 0 after scraping every later day, the scrape
\* of yesterday having failed.
C24_Witness ==
    /\ call.fn = "scrape_missing_dates" /\ result.state = "returned"
    /\ result.current = 0 /\ Len(result.scraped) = MaxDays
    /\ result.failed # <<>> /\ result.failed[1] = Yesterday

\* The number of the first load that finds scoreboards, 0 when none does.
FirstFound(loads) ==
    IF \A i \in 1 .. 3 : loads[i] = "timeout" THEN 0
    ELSE CHOOSE i \in 1 .. 3 :
           /\ loads[i] # "timeout"
           /\ \A j \in 1 .. i - 1 : loads[j] = "timeout"

\* C30: scrape_espn loads the page up to three times, again after a load
\* that failed; it raises "Failed to find scoreboards after 3 attempts" only
\* after the third failed load, and a load that succeeds (the first one in
\* particular) returns the cleaned slate.
C30_ThreeAttempts ==
    (call.fn = "scrape_espn" /\ result # NoResult) =>
        IF FirstFound(call.loads) = 0
        THEN /\ result.state = "raised"
             /\ result.error = "Failed to find scoreboards after 3 attempts."
             /\ result.gets = 3
        ELSE /\ result.state = "returned"
             /\ result.slate = call.loads[FirstFound(call.loads)]
             /\ result.gets = FirstFound(call.loads)

\* ====================================================== claims, SpecRemove

\* The Timestamp falls on calendar day d.
OnDate(ts, d) == d * SecondsPerDay <= ts[1] /\ ts[1] < (d + 1) * SecondsPerDay

\* The wager is one the call is to remove.
ToRemove(row) ==
    /\ OnDate(row.Timestamp, call.target_date)
    /\ call.teams # <<>> => row.Team \in call.teams[1]

KeepRow(row) == ~ToRemove(row)

\* C25: remove_wagers_by_date removes every wager whose Timestamp falls on
\* the target date (of the given teams only when a team list is passed),
\* keeps all other rows in their original order, and returns the number of
\* rows removed.
C25_RemovesTheDate ==
    (call.fn = "remove_wagers_by_date" /\ result # NoResult) =>
        /\ result.written = SelectSeq(call.df, KeepRow)
        /\ result.val = Len(SelectSeq(call.df, ToRemove))

\* ===================================================== claims, SpecAnalysis

\* C13: row_to_outcome looks the team up under the calendar date of the
\* Timestamp, on a miss under the previous calendar day, and fails only if
\* that lookup misses too.
C13_RetriesPreviousDay ==
    (call.fn = "row_to_outcome" /\ result # NoResult) =>
        LET date == DateOf(call.row.Timestamp)
            team == call.row.Team
        IN  IF Known(call.outcomes, date, team)
            THEN /\ result.state = "returned"
                 /\ result.val = call.outcomes[date][team]
            ELSE IF Known(call.outcomes, date - 1, team)
            THEN /\ result.state = "returned"
                 /\ result.val = call.outcomes[date - 1][team]
            ELSE result.state = "raised"

\* The curve the claim states for a strategy over rows in order s: each
\* step adds the stake on a win and subtracts the stake times the recorded
\* Polymarket Price.
RECURSIVE StatedCurve(_, _, _, _, _)
StatedCurve(s, name, k, pl, values) ==
    IF k > Len(s) THEN values
    ELSE LET stake == strategies(name, s[k])
             next == FracAdd(pl,
                        FracMul(stake,
                           FracSub(<<s[k].outcome, 1>>,
                                   Frac(s[k].PolymarketPrice, 100))))
         IN  StatedCurve(s, name, k + 1, next, Append(values, next))

\* C14: the curve of each strategy has one point per record, taken in
\* ascending Timestamp order, each step adding the stake on a win and
\* subtracting the stake times the recorded Polymarket Price, so that the
\* last point is the sum of stake * (outcome - Polymarket Price).
C14_CurveFromRecordedPrice ==
    (call.fn = "strategy_sim" /\ result.state = "returned") =>
        \E s \in Reorderings(call.df) :
           /\ \A j \in 1 .. Len(s) - 1 : s[j].Timestamp <= s[j + 1].Timestamp
           /\ \A name \in StrategyNames :
                 result.val[name] = StatedCurve(s, name, 1, <<0, 1>>, <<>>)

\* The per-bet returns of df have no standard deviation or a zero one.
Degenerate(returns) ==
    \/ Len(returns) < 2
    \/ \A j \in 1 .. Len(returns) : returns[j] = returns[1]

\* C15: when the standard deviation of the per-bet returns is zero or
\* undefined, calculate_sharpe_ratio raises or returns NaN for that
\* strategy, never 0 or an infinity.
C15_DegenerateIsReported ==
    (call.fn = "calculate_sharpe_ratio" /\ result # NoResult) =>
        \/ result.state = "raised"
        \/ LET equal == [j \in 1 .. Len(call.df) |->
                           FracSub(<<call.df[j].outcome, 1>>, call.df[j].price)]
               kelly == [j \in 1 .. Len(call.df) |->
                           FracMul(Frac(call.df[j].KellySize, 100), equal[j])]
           IN  /\ Degenerate(equal) => result.val.equal = "nan"
               /\ Degenerate(kelly) => result.val.kelly = "nan"

====
